---- MODULE Spec2Model ----
(***************************************************************************)
(* A model of node/internal_binding/cares_wrap.ts: getaddrinfo and the     *)
(* ChannelWrap query methods, over the asynchronous resolver primitive     *)
(* Deno.resolveDns.                                                        *)
(*                                                                         *)
(* One step of the model is one run-to-completion piece of JavaScript: a   *)
(* submitting call (which runs the async body up to its first await and    *)
(* returns), the settling of one resolver promise together with the        *)
(* reaction (.then callback) attached to it, or the continuation after     *)
(* Promise.allSettled.                                                     *)
(***************************************************************************)
EXTENDS Integers, Sequences, FiniteSets, TLC

\* ------------------------------------------------------------------ bounds

\* The most records the resolver returns to one request, over all its lookups.
MaxRecs == 2

\* ------------------------------------------------------- program constants

\* codeMap.get("EAI_NODATA") and codeMap.get("UNKNOWN") of ./uv.ts.
EAI_NODATA == -3007
UNKNOWN == -4094

\* ---------------------------------------------------------------- universe

\* Request slots; Spec uses the slots of SpecReqs.
Reqs == {1, 2}
SpecReqs == {1}

RecordTypes == {"A", "AAAA", "CNAME", "MX", "PTR", "SRV", "TXT"}
\* Every record type Deno.resolveDns can be asked for.
DenoRecordTypes == RecordTypes \cup {"CAA", "NS", "NAPTR", "SOA"}

Hostnames == {"localhost", "example.test"}
\* The names handed to the ChannelWrap query methods.
QueryNames == {"example.test"}
\* family as passed to getaddrinfo: 0, 4, 6 and one value that is none of them.
Families == {0, 4, 6, 10}

IPv4Lits == {"93.184.216.34", "127.0.0.1"}
IPv6Lits == {"2606:2800:220:1::", "::1"}

\* isIPv4 of ../internal/net.ts: whether a string is an IPv4 literal.
isIPv4(a) == a \in IPv4Lits

\* The records Deno.resolveDns can return for one record type.
NativeRecords(t) ==
  CASE t = "A" -> IPv4Lits
    [] t = "AAAA" -> IPv6Lits
    [] t = "CNAME" -> {"alias.example.test"}
    [] t = "MX" -> {[preference |-> 10, exchange |-> "mail.example.test"],
                    [preference |-> 20, exchange |-> "mx2.example.test"]}
    [] t = "PTR" -> {"ptr.example.test"}
    [] t = "SRV" -> {[priority |-> 1, weight |-> 5, port |-> 443,
                      target |-> "srv.example.test"],
                     [priority |-> 2, weight |-> 9, port |-> 8443,
                      target |-> "alt.example.test"]}
    [] t = "TXT" -> {<<"v=spf1", "-all">>}

SeqsUpTo(S, n) == UNION {[1..k -> S] : k \in 0..n}

\* How a Deno.resolveDns promise settles: fulfilled with records, rejected
\* with Deno.errors.NotFound, or rejected with anything else.
Outcomes(t, room) ==
  {[st |-> "ok", ret |-> s] : s \in SeqsUpTo(NativeRecords(t), room)}
    \cup {[st |-> "notfound", ret |-> <<>>], [st |-> "error", ret |-> <<>>]}

NotDispatched == [st |-> "none", ret |-> <<>>]
Pending == [st |-> "pending", ret |-> <<>>]
Settled(ret) == [st |-> "settled", ret |-> ret]

Range(s) == {s[i] : i \in 1..Len(s)}
\* How many times x stands in s.
Count(s, x) == Cardinality({i \in 1..Len(s) : s[i] = x})

\* ------------------------------------------------------------------- state

VARIABLES
  isWindows,   \* isWindows of ../../_util/os.ts
  call,        \* per request: the operation called and its arguments
  pc,          \* per request: "idle", "awaiting", "done" or "raised"
  returned,    \* per request: "none", "0" (the call returned 0) or "raised"
  dispatched,  \* per request and record type: the calls of Deno.resolveDns
  lookups,     \* per request and record type: the lookup's promise ("none":
               \* not dispatched) and the records the resolver returned
  seen,        \* per request: the ways its Deno.resolveDns promises settled
  acc,         \* per request: the closure's array (addresses / records)
  merged,      \* per request: acc as it was when the join completed
  oncomplete   \* per request: the invocations of req.oncomplete, in order

vars ==
  <<isWindows, call, pc, returned, dispatched, lookups, seen, acc, merged,
    oncomplete>>

NoCall == [op |-> "none", hostname |-> "", family |-> 0, verbatim |-> FALSE]

Init ==
  /\ isWindows \in BOOLEAN
  /\ call = [r \in Reqs |-> NoCall]
  /\ pc = [r \in Reqs |-> "idle"]
  /\ returned = [r \in Reqs |-> "none"]
  /\ dispatched = [r \in Reqs |-> [t \in DenoRecordTypes |-> 0]]
  /\ lookups = [r \in Reqs |-> [t \in RecordTypes |-> NotDispatched]]
  /\ seen = [r \in Reqs |-> {}]
  /\ acc = [r \in Reqs |-> <<>>]
  /\ merged = [r \in Reqs |-> <<>>]
  /\ oncomplete = [r \in Reqs |-> <<>>]

\* A join that ends with the first lookup to settle, as Promise.race would.
AnySettled(r) == \E t \in RecordTypes : lookups[r][t].st = "settled"

\* Promise.allSettled over the request's lookups: none is pending.
AllSettled(r) == \A t \in RecordTypes : lookups[r][t].st # "pending"

\* Records the resolver may still return to request r.
Room(r) == MaxRecs - Len(acc[r])

\* ------------------------------------------------------------- getaddrinfo

\* recordTypes with the AAAA test also taking family 4.
RecordTypesForBoth(family) ==
  (IF family = 0 \/ family = 4 THEN <<"A">> ELSE <<>>)
    \o (IF family = 0 \/ family = 4 \/ family = 6 THEN <<"AAAA">> ELSE <<>>)

\* recordTypes with A as the default of every family but 6.
RecordTypesForDefaultA(family) ==
  (IF family # 6 THEN <<"A">> ELSE <<>>)
    \o (IF family = 0 \/ family = 6 THEN <<"AAAA">> ELSE <<>>)

\* recordTypes of getaddrinfo, in push order.
RecordTypesFor(family) ==
  (IF family = 0 \/ family = 4 THEN <<"A">> ELSE <<>>)
    \o (IF family = 0 \/ family = 6 THEN <<"AAAA">> ELSE <<>>)

\* getaddrinfo with a shortcut: with no record type selected it reports to
\* the caller at once, inside the call.
getaddrinfoSync(r, hostname, family, verbatim) ==
  /\ pc[r] = "idle"
  /\ call' = [call EXCEPT ![r] = [op |-> "getaddrinfo", hostname |-> hostname,
                                  family |-> family, verbatim |-> verbatim]]
  /\ dispatched' = [dispatched EXCEPT ![r] =
       [t \in DenoRecordTypes |-> Count(RecordTypesFor(family), t)]]
  /\ lookups' = [lookups EXCEPT ![r] =
       [t \in RecordTypes |->
          IF t \in Range(RecordTypesFor(family)) THEN Pending
          ELSE NotDispatched]]
  /\ acc' = [acc EXCEPT ![r] = <<>>]
  /\ IF RecordTypesFor(family) = <<>>
     THEN /\ oncomplete' = [oncomplete EXCEPT ![r] =
               Append(@, [err |-> EAI_NODATA, data |-> <<>>])]
          /\ pc' = [pc EXCEPT ![r] = "done"]
     ELSE /\ oncomplete' = oncomplete
          /\ pc' = [pc EXCEPT ![r] = "awaiting"]
  /\ returned' = [returned EXCEPT ![r] = "0"]
  /\ UNCHANGED <<isWindows, seen, merged>>

\* The submitting call: dispatches one Deno.resolveDns per record type, the
\* async body suspends at its await, and the call returns 0.
getaddrinfo(r, hostname, family, verbatim) ==
  /\ pc[r] = "idle"
  /\ call' = [call EXCEPT ![r] = [op |-> "getaddrinfo", hostname |-> hostname,
                                  family |-> family, verbatim |-> verbatim]]
  /\ dispatched' = [dispatched EXCEPT ![r] =
       [t \in DenoRecordTypes |-> Count(RecordTypesFor(family), t)]]
  /\ lookups' = [lookups EXCEPT ![r] =
       [t \in RecordTypes |->
          IF t \in Range(RecordTypesFor(family)) THEN Pending
          ELSE NotDispatched]]
  /\ acc' = [acc EXCEPT ![r] = <<>>]
  /\ pc' = [pc EXCEPT ![r] = "awaiting"]
  /\ returned' = [returned EXCEPT ![r] = "0"]
  /\ UNCHANGED <<isWindows, seen, merged, oncomplete>>

\* A .then callback that also reports to the caller as soon as its own lookup
\* has records, with the join's continuation still to come.
GetAddrInfoSettleEarly(r, t, o) ==
  /\ pc[r] = "awaiting"
  /\ call[r].op = "getaddrinfo"
  /\ lookups[r][t].st = "pending"
  /\ seen' = [seen EXCEPT ![r] = @ \cup {o.st}]
  /\ lookups' = [lookups EXCEPT ![r][t] = Settled(o.ret)]
  /\ acc' = [acc EXCEPT ![r] = IF o.st = "ok" THEN acc[r] \o o.ret ELSE acc[r]]
  /\ oncomplete' = [oncomplete EXCEPT ![r] =
       IF o.st = "ok" THEN Append(@, [err |-> 0, data |-> acc[r] \o o.ret])
       ELSE @]
  /\ UNCHANGED <<dispatched, isWindows, call, pc, returned, merged>>

\* A .then callback that assigns its records to addresses instead of pushing
\* them.
GetAddrInfoSettleOverwrite(r, t, o) ==
  /\ pc[r] = "awaiting"
  /\ call[r].op = "getaddrinfo"
  /\ lookups[r][t].st = "pending"
  /\ seen' = [seen EXCEPT ![r] = @ \cup {o.st}]
  /\ lookups' = [lookups EXCEPT ![r][t] = Settled(o.ret)]
  /\ acc' = [acc EXCEPT ![r] = IF o.st = "ok" THEN o.ret ELSE acc[r]]
  /\ UNCHANGED <<dispatched, isWindows, call, pc, returned, merged, oncomplete>>

\* addresses as one array of the module, shared by the requests in flight:
\* a .then callback pushes onto it for all of them.
GetAddrInfoSettleShared(r, t, o) ==
  /\ pc[r] = "awaiting"
  /\ call[r].op = "getaddrinfo"
  /\ lookups[r][t].st = "pending"
  /\ seen' = [seen EXCEPT ![r] = @ \cup {o.st}]
  /\ lookups' = [lookups EXCEPT ![r][t] = Settled(o.ret)]
  /\ acc' = [q \in Reqs |->
       IF o.st = "ok" /\ pc[q] = "awaiting" /\ call[q].op = "getaddrinfo"
       THEN acc[q] \o o.ret
       ELSE acc[q]]
  /\ UNCHANGED <<dispatched, isWindows, call, pc, returned, merged, oncomplete>>

\* One Deno.resolveDns promise of getaddrinfo settles; when fulfilled its
\* .then callback pushes every record onto addresses.
GetAddrInfoSettle(r, t, o) ==
  /\ pc[r] = "awaiting"
  /\ call[r].op = "getaddrinfo"
  /\ lookups[r][t].st = "pending"
  /\ seen' = [seen EXCEPT ![r] = @ \cup {o.st}]
  /\ lookups' = [lookups EXCEPT ![r][t] = Settled(o.ret)]
  /\ acc' = [acc EXCEPT ![r] = IF o.st = "ok" THEN acc[r] \o o.ret ELSE acc[r]]
  /\ UNCHANGED <<dispatched, isWindows, call, pc, returned, merged, oncomplete>>

\* The error of an empty result taken from the wrong entry of codeMap.
AddrErrorUnknown(addresses) == IF Len(addresses) # 0 THEN 0 ELSE UNKNOWN

\* const error = addresses.length ? 0 : codeMap.get("EAI_NODATA")
AddrError(addresses) == IF Len(addresses) # 0 THEN 0 ELSE EAI_NODATA

\* The comparator with its two results exchanged.
CompareIPv6First(a, b) == IF isIPv4(a) THEN 1 ELSE IF isIPv4(b) THEN -1 ELSE 0

\* The comparator handed to addresses.sort.
Compare(a, b) == IF isIPv4(a) THEN -1 ELSE IF isIPv4(b) THEN 1 ELSE 0

Reverse(s) == [i \in 1..Len(s) |-> s[Len(s) + 1 - i]]

\* Array.prototype.sort as the engine under Deno (V8, TimSort) runs it on an
\* array shorter than 64 elements: the whole array is one run.  The leading
\* run is found by comparing each element with the one before it (strictly
\* descending when the first comparison is negative, and then reversed), and
\* the remaining elements are added by binary insertion.
RECURSIVE RunLength(_, _, _)
RunLength(s, idx, descending) ==
  IF idx > Len(s) THEN idx - 1
  ELSE LET order == Compare(s[idx], s[idx - 1])
       IN IF (descending /\ order >= 0) \/ (~descending /\ order < 0)
          THEN idx - 1
          ELSE RunLength(s, idx + 1, descending)

RECURSIVE InsertionPoint(_, _, _, _)
InsertionPoint(s, pivot, left, right) ==
  IF left >= right THEN left
  ELSE LET mid == left + ((right - left) \div 2)
       IN IF Compare(pivot, s[mid]) < 0
          THEN InsertionPoint(s, pivot, left, mid)
          ELSE InsertionPoint(s, pivot, mid + 1, right)

RECURSIVE BinaryInsertionSort(_, _)
BinaryInsertionSort(s, start) ==
  IF start > Len(s) THEN s
  ELSE LET pivot == s[start]
           left == InsertionPoint(s, pivot, 1, start)
           moved == [i \in 1..Len(s) |->
                       IF i < left \/ i > start THEN s[i]
                       ELSE IF i = left THEN pivot
                       ELSE s[i - 1]]
       IN BinaryInsertionSort(moved, start + 1)

ArraySort(s) ==
  IF Len(s) < 2 THEN s
  ELSE LET descending == Compare(s[2], s[1]) < 0
           run == RunLength(s, 3, descending)
           made == IF descending
                   THEN Reverse(SubSeq(s, 1, run)) \o SubSeq(s, run + 1, Len(s))
                   ELSE s
       IN BinaryInsertionSort(made, run + 1)

\* The sort applied whatever verbatim says.
OrderAlways(verbatim, addresses) == ArraySort(addresses)

\* if (!verbatim) addresses.sort(...)
OrderAddresses(verbatim, addresses) ==
  IF ~verbatim THEN ArraySort(addresses) ELSE addresses

\* The filter without its test of the hostname.
PlatformFilterAnyHost(windows, hostname, addresses) ==
  IF windows THEN SelectSeq(addresses, isIPv4) ELSE addresses

\* if (isWindows && hostname === "localhost") addresses = addresses.filter(isIPv4)
PlatformFilter(windows, hostname, addresses) ==
  IF windows /\ hostname = "localhost"
  THEN SelectSeq(addresses, isIPv4)
  ELSE addresses

\* The continuation of getaddrinfo's async body after Promise.allSettled.
GetAddrInfoComplete(r) ==
  /\ pc[r] = "awaiting"
  /\ call[r].op = "getaddrinfo"
  /\ AllSettled(r)
  /\ LET error == AddrError(acc[r])
         ordered == OrderAddresses(call[r].verbatim, acc[r])
         addresses == PlatformFilter(isWindows, call[r].hostname, ordered)
     IN /\ oncomplete' = [oncomplete EXCEPT ![r] =
             Append(@, [err |-> error, data |-> addresses])]
        /\ acc' = [acc EXCEPT ![r] = addresses]
  /\ merged' = [merged EXCEPT ![r] = acc[r]]
  /\ pc' = [pc EXCEPT ![r] = "done"]
  /\ UNCHANGED <<dispatched, isWindows, call, returned, lookups, seen>>

\* ------------------------------------------------------------- ChannelWrap

\* #query without the test for Deno.errors.NotFound: every failure is no data.
QueryAllNoData(o) ==
  [code |-> IF o.st = "ok" THEN 0 ELSE EAI_NODATA,
   ret |-> IF o.st = "ok" THEN o.ret ELSE <<>>]

\* ChannelWrap.#query: what the promise it returns resolves to for each way
\* the awaited Deno.resolveDns settles.  It has no rejecting path.
Query(o) ==
  [code |-> IF o.st = "ok" THEN 0
            ELSE IF o.st = "notfound" THEN EAI_NODATA
            ELSE UNKNOWN,
   ret |-> IF o.st = "ok" THEN o.ret ELSE <<>>]

\* The AAAA callback copied from the A callback, its tag left as "A".
AnyRecordMistagged(t, record) ==
  CASE t = "A" -> [type |-> "A", address |-> record]
    [] t = "AAAA" -> [type |-> "A", address |-> record]
    [] t = "CNAME" -> [type |-> "CNAME", value |-> record]
    [] t = "MX" -> [type |-> "MX", priority |-> record.preference,
                    exchange |-> record.exchange]
    [] t = "PTR" -> [type |-> "PTR", value |-> record]
    [] t = "SRV" -> [type |-> "SRV", priority |-> record.priority,
                     weight |-> record.weight, port |-> record.port,
                     name |-> record.target]
    [] t = "TXT" -> [type |-> "TXT", entries |-> record]

\* The record each .then callback of queryAny pushes for one native record.
AnyRecord(t, record) ==
  CASE t = "A" -> [type |-> "A", address |-> record]
    [] t = "AAAA" -> [type |-> "AAAA", address |-> record]
    [] t = "CNAME" -> [type |-> "CNAME", value |-> record]
    [] t = "MX" -> [type |-> "MX", priority |-> record.preference,
                    exchange |-> record.exchange]
    [] t = "PTR" -> [type |-> "PTR", value |-> record]
    [] t = "SRV" -> [type |-> "SRV", priority |-> record.priority,
                     weight |-> record.weight, port |-> record.port,
                     name |-> record.target]
    [] t = "TXT" -> [type |-> "TXT", entries |-> record]

\* The record types queryAny asks #query for.
AnyTypes == {"A", "AAAA", "CNAME", "MX", "PTR", "SRV", "TXT"}

\* queryAny: dispatches the seven #query lookups, suspends at its await and
\* returns 0.
queryAny(r, name) ==
  /\ pc[r] = "idle"
  /\ call' = [call EXCEPT ![r] = [NoCall EXCEPT !.op = "queryAny",
                                                !.hostname = name]]
  /\ dispatched' = [dispatched EXCEPT ![r] =
       [t \in DenoRecordTypes |-> IF t \in AnyTypes THEN 1 ELSE 0]]
  /\ lookups' = [lookups EXCEPT ![r] =
       [t \in RecordTypes |-> IF t \in AnyTypes THEN Pending ELSE NotDispatched]]
  /\ acc' = [acc EXCEPT ![r] = <<>>]
  /\ pc' = [pc EXCEPT ![r] = "awaiting"]
  /\ returned' = [returned EXCEPT ![r] = "0"]
  /\ UNCHANGED <<isWindows, seen, merged, oncomplete>>

\* One #query promise of queryAny resolves; its .then callback pushes one
\* tagged record per record of ret.
QueryAnySettle(r, t, o) ==
  /\ pc[r] = "awaiting"
  /\ call[r].op = "queryAny"
  /\ lookups[r][t].st = "pending"
  /\ seen' = [seen EXCEPT ![r] = @ \cup {o.st}]
  /\ lookups' = [lookups EXCEPT ![r][t] = Settled(o.ret)]
  /\ LET ret == Query(o).ret
     IN acc' = [acc EXCEPT ![r] =
                  acc[r] \o [i \in 1..Len(ret) |-> AnyRecord(t, ret[i])]]
  /\ UNCHANGED <<dispatched, isWindows, call, pc, returned, merged, oncomplete>>

\* The test on records.length the wrong way round.
AnyErrorInverted(records) == IF Len(records) # 0 THEN EAI_NODATA ELSE 0

\* const err = records.length ? 0 : codeMap.get("EAI_NODATA")
AnyError(records) == IF Len(records) # 0 THEN 0 ELSE EAI_NODATA

\* The continuation of queryAny's async body after Promise.allSettled.
QueryAnyComplete(r) ==
  /\ pc[r] = "awaiting"
  /\ call[r].op = "queryAny"
  /\ AllSettled(r)
  /\ oncomplete' = [oncomplete EXCEPT ![r] =
       Append(@, [err |-> AnyError(acc[r]), data |-> acc[r]])]
  /\ merged' = [merged EXCEPT ![r] = acc[r]]
  /\ pc' = [pc EXCEPT ![r] = "done"]
  /\ UNCHANGED <<dispatched, isWindows, call, returned, lookups, seen, acc>>

\* The single-type query methods and the record type each hands to #query.
SingleOps ==
  {"queryA", "queryAaaa", "queryCname", "queryMx", "queryTxt", "querySrv",
   "queryPtr"}

OpType(op) ==
  CASE op = "queryA" -> "A"
    [] op = "queryAaaa" -> "AAAA"
    [] op = "queryCname" -> "CNAME"
    [] op = "queryMx" -> "MX"
    [] op = "queryTxt" -> "TXT"
    [] op = "querySrv" -> "SRV"
    [] op = "queryPtr" -> "PTR"

\* A single-type query method up to its return: one #query is started, a
\* .then callback is attached, and 0 is returned.
Submit(r, op, name) ==
  /\ pc[r] = "idle"
  /\ call' = [call EXCEPT ![r] = [NoCall EXCEPT !.op = op, !.hostname = name]]
  /\ dispatched' = [dispatched EXCEPT ![r] =
       [t \in DenoRecordTypes |-> IF t = OpType(op) THEN 1 ELSE 0]]
  /\ lookups' = [lookups EXCEPT ![r] =
       [t \in RecordTypes |-> IF t = OpType(op) THEN Pending ELSE NotDispatched]]
  /\ acc' = [acc EXCEPT ![r] = <<>>]
  /\ pc' = [pc EXCEPT ![r] = "awaiting"]
  /\ returned' = [returned EXCEPT ![r] = "0"]
  /\ UNCHANGED <<isWindows, seen, merged, oncomplete>>

queryA(r, name) == Submit(r, "queryA", name)
queryAaaa(r, name) == Submit(r, "queryAaaa", name)
queryCname(r, name) == Submit(r, "queryCname", name)
queryMx(r, name) == Submit(r, "queryMx", name)
queryTxt(r, name) == Submit(r, "queryTxt", name)
querySrv(r, name) == Submit(r, "querySrv", name)
queryPtr(r, name) == Submit(r, "queryPtr", name)

\* queryMx handing on the resolver's records as they are.
MxRecordsUnrenamed(ret) == ret

\* queryMx's map over ret.
MxRecords(ret) ==
  [i \in 1..Len(ret) |->
     [priority |-> ret[i].preference, exchange |-> ret[i].exchange]]

\* querySrv's map over ret.
SrvRecords(ret) ==
  [i \in 1..Len(ret) |->
     [priority |-> ret[i].priority, weight |-> ret[i].weight,
      port |-> ret[i].port, name |-> ret[i].target]]

\* The records a single-type method's .then callback hands to oncomplete.
Records(op, ret) ==
  IF op = "queryMx" THEN MxRecords(ret)
  ELSE IF op = "querySrv" THEN SrvRecords(ret)
  ELSE ret

\* The #query promise of a single-type method resolves and its .then
\* callback runs: req.oncomplete(code, records).
QuerySettle(r, t, o) ==
  /\ pc[r] = "awaiting"
  /\ call[r].op \in SingleOps
  /\ t = OpType(call[r].op)
  /\ lookups[r][t].st = "pending"
  /\ seen' = [seen EXCEPT ![r] = @ \cup {o.st}]
  /\ lookups' = [lookups EXCEPT ![r][t] = Settled(o.ret)]
  /\ oncomplete' = [oncomplete EXCEPT ![r] =
       Append(@, [err |-> Query(o).code,
                  data |-> Records(call[r].op, Query(o).ret)])]
  /\ pc' = [pc EXCEPT ![r] = "done"]
  /\ UNCHANGED <<dispatched, isWindows, call, returned, acc, merged>>

\* The operations whose body is a call of notImplemented.
UnsupportedOps ==
  {"queryCaa", "queryNs", "queryNaptr", "querySoa", "getHostByAddr",
   "getServers", "setServers", "setLocalAddress", "cancel"}

\* notImplemented of ../_utils.ts: throws; the caller's body ends there.
notImplemented(r, op) ==
  /\ pc[r] = "idle"
  /\ call' = [call EXCEPT ![r] = [NoCall EXCEPT !.op = op]]
  /\ pc' = [pc EXCEPT ![r] = "raised"]
  /\ returned' = [returned EXCEPT ![r] = "raised"]
  /\ UNCHANGED <<dispatched, isWindows, lookups, seen, acc, merged, oncomplete>>

\* queryCaa written like the supported methods: it starts a lookup and
\* returns 0.
queryCaaDispatching(r) ==
  /\ pc[r] = "idle"
  /\ call' = [call EXCEPT ![r] = [NoCall EXCEPT !.op = "queryCaa"]]
  /\ lookups' = [lookups EXCEPT ![r]["CNAME"] = Pending]
  /\ pc' = [pc EXCEPT ![r] = "awaiting"]
  /\ returned' = [returned EXCEPT ![r] = "0"]
  /\ UNCHANGED <<dispatched, isWindows, seen, acc, merged, oncomplete>>

queryCaa(r) == notImplemented(r, "queryCaa")
queryNs(r) == notImplemented(r, "queryNs")
queryNaptr(r) == notImplemented(r, "queryNaptr")
querySoa(r) == notImplemented(r, "querySoa")
getHostByAddr(r) == notImplemented(r, "getHostByAddr")
getServers(r) == notImplemented(r, "getServers")
setServers(r) == notImplemented(r, "setServers")
setLocalAddress(r) == notImplemented(r, "setLocalAddress")
cancel(r) == notImplemented(r, "cancel")

\* ----------------------------------------------------------- specification

Next ==
  \E r \in SpecReqs :
    \/ \E h \in Hostnames, f \in Families, v \in BOOLEAN : getaddrinfo(r, h, f, v)
    \/ \E t \in RecordTypes : \E o \in Outcomes(t, Room(r)) : GetAddrInfoSettle(r, t, o)
    \/ GetAddrInfoComplete(r)
    \/ \E h \in QueryNames : queryAny(r, h)
    \/ \E t \in RecordTypes : \E o \in Outcomes(t, Room(r)) : QueryAnySettle(r, t, o)
    \/ QueryAnyComplete(r)
    \/ \E h \in QueryNames : queryA(r, h)
    \/ \E h \in QueryNames : queryAaaa(r, h)
    \/ \E h \in QueryNames : queryCname(r, h)
    \/ \E h \in QueryNames : queryMx(r, h)
    \/ \E h \in QueryNames : queryTxt(r, h)
    \/ \E h \in QueryNames : querySrv(r, h)
    \/ \E h \in QueryNames : queryPtr(r, h)
    \/ \E t \in RecordTypes : \E o \in Outcomes(t, Room(r)) : QuerySettle(r, t, o)
    \/ queryCaa(r)
    \/ queryNs(r)
    \/ queryNaptr(r)
    \/ querySoa(r)
    \/ getHostByAddr(r)
    \/ getServers(r)
    \/ setServers(r)
    \/ setLocalAddress(r)
    \/ cancel(r)

Spec == Init /\ [][Next]_vars

\* Two requests in flight at once: the calls of the two request objects, the
\* settling of their lookups and their join continuations interleave freely.
\* A join continuation is taken once both calls are made, so that every
\* delivery is one of two overlapping requests.
BothSubmitted == \A q \in Reqs : pc[q] # "idle"

\* The families of the overlapping getaddrinfo calls: both lookups, or one.
IsoFamilies == {0, 4}

\* The resolver outcomes of the overlapping requests: a lookup fails, or
\* returns the one record of its type.
IsoOutcomes(t, room) ==
  {o \in Outcomes(t, room) :
     /\ o.st # "notfound"
     /\ o.st = "ok" => o.ret = <<CHOOSE n \in NativeRecords(t) : TRUE>>}

\* Request 1 is a getaddrinfo or a queryAny, request 2 a getaddrinfo.
NextIso ==
  \E r \in Reqs :
    \/ \E h \in QueryNames, f \in IsoFamilies : getaddrinfo(r, h, f, TRUE)
    \/ \E t \in RecordTypes : \E o \in IsoOutcomes(t, Room(r)) : GetAddrInfoSettle(r, t, o)
    \/ BothSubmitted /\ GetAddrInfoComplete(r)
    \/ r = 1 /\ \E h \in QueryNames : queryAny(r, h)
    \/ \E t \in RecordTypes : \E o \in IsoOutcomes(t, Room(r)) : QueryAnySettle(r, t, o)
    \/ BothSubmitted /\ QueryAnyComplete(r)

SpecIso == Init /\ [][NextIso]_vars

\* The event loop runs every continuation that is ready, and (the premise of
\* the completion claim) every dispatched resolver lookup settles.
Settles(r, t) ==
  \E o \in Outcomes(t, Room(r)) :
    GetAddrInfoSettle(r, t, o) \/ QueryAnySettle(r, t, o) \/ QuerySettle(r, t, o)

Fairness ==
  \A r \in SpecReqs :
    /\ WF_vars(GetAddrInfoComplete(r))
    /\ WF_vars(QueryAnyComplete(r))
    /\ \A t \in RecordTypes : WF_vars(Settles(r, t))

FairSpec == Spec /\ Fairness

\* getaddrinfo alone: the call, the settling of its lookups and its join
\* continuation, under the same event loop.
GetAddrInfoNext ==
  \E r \in SpecReqs :
    \/ \E h \in Hostnames, f \in Families, v \in BOOLEAN : getaddrinfo(r, h, f, v)
    \/ \E t \in RecordTypes : \E o \in Outcomes(t, Room(r)) : GetAddrInfoSettle(r, t, o)
    \/ GetAddrInfoComplete(r)

GetAddrInfoFairness ==
  \A r \in SpecReqs :
    /\ WF_vars(GetAddrInfoComplete(r))
    /\ \A t \in RecordTypes :
         WF_vars(\E o \in Outcomes(t, Room(r)) : GetAddrInfoSettle(r, t, o))

GetAddrInfoFairSpec == Init /\ [][GetAddrInfoNext]_vars /\ GetAddrInfoFairness

\* ------------------------------------------------------------------ claims

Accepted(r) == returned[r] = "0"
Completed(r) == Len(oncomplete[r]) >= 1
\* The arguments of the (first) invocation of req.oncomplete.
Delivered(r) == oncomplete[r][1]
IsOp(r, op) == call[r].op = op
NotIPv4(a) == ~isIPv4(a)
Filtered(r) == isWindows /\ call[r].hostname = "localhost"
\* Whether every IPv4 literal of s stands before every other address of s.
Partitioned(s) ==
  \A i, j \in 1..Len(s) : (isIPv4(s[i]) /\ ~isIPv4(s[j])) => i < j

\* C1: req.oncomplete is never invoked twice for a request, and every accepted
\* request (getaddrinfo, queryAny, a single-type query) has it invoked once
\* eventually, when every dispatched lookup eventually settles.
C1_ExactlyOnce ==
  /\ [](\A r \in Reqs : Len(oncomplete[r]) <= 1)
  /\ \A r \in SpecReqs : Accepted(r) ~> (Len(oncomplete[r]) = 1)


C1_Witness ==
  \E r \in Reqs :
    /\ IsOp(r, "getaddrinfo")
    /\ call[r].family = 0
    /\ {"ok", "error"} \subseteq seen[r]
    /\ Len(oncomplete[r]) = 1

\* C2: in getaddrinfo the error code passed to req.oncomplete is EAI_NODATA
\* exactly when the address sequence passed with it is empty, and 0 otherwise.
C2_ErrorIffDeliveredEmpty ==
  \A r \in Reqs :
    (IsOp(r, "getaddrinfo") /\ Completed(r)) =>
      Delivered(r).err = (IF Delivered(r).data = <<>> THEN EAI_NODATA ELSE 0)

\* C3: in getaddrinfo with family 0 and verbatim = true the merged sequence
\* is the A lookup's results followed by the AAAA lookup's results, whichever
\* of the two settles first.
C3_DispatchOrderMerge ==
  \A r \in Reqs :
    (IsOp(r, "getaddrinfo") /\ call[r].family = 0 /\ call[r].verbatim
       /\ Completed(r)) =>
      merged[r] = lookups[r]["A"].ret \o lookups[r]["AAAA"].ret

\* C4: in getaddrinfo with verbatim = false every IPv4 literal of the
\* delivered sequence has a smaller index than every IPv6 literal of it.
C4_IPv4First ==
  \A r \in Reqs :
    (IsOp(r, "getaddrinfo") /\ ~call[r].verbatim /\ Completed(r)) =>
      Partitioned(Delivered(r).data)

\* A non-verbatim request whose merged sequence had an IPv6 literal before an
\* IPv4 literal, delivered with both kinds still in it.
C4_Witness ==
  \E r \in Reqs :
    /\ IsOp(r, "getaddrinfo")
    /\ ~call[r].verbatim
    /\ Completed(r)
    /\ ~Partitioned(merged[r])
    /\ Len(Delivered(r).data) = Len(merged[r])

\* C5: in getaddrinfo with verbatim = false the ordering step is a stable
\* partition: the IPv4 addresses are delivered in the relative order they had
\* in the merged sequence, and so are the IPv6 addresses (those that the
\* platform filter leaves in).
C5_StablePartition ==
  \A r \in Reqs :
    (IsOp(r, "getaddrinfo") /\ ~call[r].verbatim /\ Completed(r)) =>
      /\ SelectSeq(Delivered(r).data, isIPv4) = SelectSeq(merged[r], isIPv4)
      /\ ~Filtered(r) =>
           SelectSeq(Delivered(r).data, NotIPv4) = SelectSeq(merged[r], NotIPv4)

C7_JoinDiscipline ==
  \A r \in Reqs :
    /\ Completed(r) => \A t \in RecordTypes : lookups[r][t].st # "pending"
    /\ (IsOp(r, "getaddrinfo") /\ call[r].family = 0) =>
         \A t \in {"A", "AAAA"} :
           /\ lookups[r][t].st # "none"
           /\ Completed(r) => lookups[r][t].st = "settled"
    /\ IsOp(r, "queryAny") =>
         \A t \in AnyTypes :
           /\ lookups[r][t].st # "none"
           /\ Completed(r) => lookups[r][t].st = "settled"

\* A family-0 request, completed, one of whose lookups failed while the other
\* returned records.
C7_Witness ==
  \E r \in Reqs :
    /\ IsOp(r, "getaddrinfo")
    /\ call[r].family = 0
    /\ Completed(r)
    /\ seen[r] = {"ok", "notfound"}
    /\ merged[r] # <<>>

\* C8: a single-type query always ends in an outcome delivered to
\* req.oncomplete: code 0 with the resolver's records on success, EAI_NODATA
\* with no records on a not-found failure, UNKNOWN with no records on any
\* other failure.
C8_QueryOutcome ==
  \A r \in Reqs :
    call[r].op \in SingleOps =>
      LET l == lookups[r][OpType(call[r].op)]
      IN l.st = "settled" =>
           /\ Len(oncomplete[r]) = 1
           /\ seen[r] = {"ok"} =>
                /\ Delivered(r).err = 0
                /\ Len(Delivered(r).data) = Len(l.ret)
                /\ call[r].op \notin {"queryMx", "querySrv"} =>
                     Delivered(r).data = l.ret
           /\ seen[r] = {"notfound"} =>
                (Delivered(r).err = EAI_NODATA /\ Delivered(r).data = <<>>)
           /\ seen[r] = {"error"} =>
                (Delivered(r).err = UNKNOWN /\ Delivered(r).data = <<>>)

\* A single-type query whose lookup failed otherwise than not-found.
C8_Witness ==
  \E r \in Reqs :
    /\ IsOp(r, "queryA")
    /\ seen[r] = {"error"}
    /\ Completed(r)

\* C9: an unsupported operation raises inside the call: no lookup is
\* dispatched, 0 is not returned, and req.oncomplete is never invoked.
C9_UnsupportedRaises ==
  \A r \in Reqs :
    call[r].op \in UnsupportedOps =>
      /\ returned[r] = "raised"
      /\ \A t \in RecordTypes : lookups[r][t].st = "none"
      /\ oncomplete[r] = <<>>

C9_Witness == \E r \in Reqs : IsOp(r, "queryCaa") /\ pc[r] = "raised"

\* C10: in queryAny the error code passed to req.oncomplete is EAI_NODATA
\* exactly when the record sequence passed with it is empty, and 0 otherwise;
\* it is never UNKNOWN.
C10_AnyErrorIffEmpty ==
  \A r \in Reqs :
    (IsOp(r, "queryAny") /\ Completed(r)) =>
      /\ Delivered(r).err = (IF Delivered(r).data = <<>> THEN EAI_NODATA ELSE 0)
      /\ Delivered(r).err # UNKNOWN

\* A queryAny delivered with no record after a lookup failed otherwise than
\* not-found.
C10_Witness ==
  \E r \in Reqs :
    /\ IsOp(r, "queryAny")
    /\ Completed(r)
    /\ "error" \in seen[r]
    /\ Delivered(r).data = <<>>

\* The records of data that carry type tag t, in order.
OfType(data, t) ==
  LET HasTag(x) == x.type = t
  IN SelectSeq(data, HasTag)

\* The resolver record a tagged record of queryAny stands for.
Untagged(x) ==
  CASE x.type \in {"A", "AAAA"} -> x.address
    [] x.type \in {"CNAME", "PTR"} -> x.value
    [] x.type = "TXT" -> x.entries
    [] x.type = "MX" -> [preference |-> x.priority, exchange |-> x.exchange]
    [] x.type = "SRV" -> [priority |-> x.priority, weight |-> x.weight,
                          port |-> x.port, target |-> x.name]

UntaggedSeq(data) == [i \in 1..Len(data) |-> Untagged(data[i])]

RECURSIVE ReturnedOver(_, _)
\* How many records the resolver returned to request r for the types of S.
ReturnedOver(r, S) ==
  IF S = {} THEN 0
  ELSE LET t == CHOOSE x \in S : TRUE
       IN Len(lookups[r][t].ret) + ReturnedOver(r, S \ {t})

Returned(r) == ReturnedOver(r, RecordTypes)

\* C11: queryAny calls the resolver once for each of A, AAAA, CNAME, MX, PTR,
\* SRV and TXT and for no other record type, it returns 0, and the delivered
\* records that carry tag t are exactly the records the lookup for t returned,
\* in the resolver's order, whatever the order of settling.
C11_AnyFanOutTagged ==
  \A r \in Reqs :
    IsOp(r, "queryAny") =>
      /\ returned[r] = "0"
      /\ \A t \in DenoRecordTypes :
           dispatched[r][t] =
             (IF t \in {"A", "AAAA", "CNAME", "MX", "PTR", "SRV", "TXT"}
              THEN 1 ELSE 0)
      /\ Completed(r) =>
           \A t \in RecordTypes :
             UntaggedSeq(OfType(Delivered(r).data, t)) = lookups[r][t].ret

\* A queryAny delivered with records of two types, the AAAA records first.
C11_Witness ==
  \E r \in Reqs :
    /\ IsOp(r, "queryAny")
    /\ Completed(r)
    /\ Len(Delivered(r).data) = 2
    /\ Delivered(r).data[1].type = "AAAA"
    /\ Delivered(r).data[2].type = "MX"

\* C12: req.oncomplete is never invoked inside the submitting call: whenever
\* it is invoked the call has already returned 0.
C12_ReturnsBeforeComplete ==
  [][\A r \in Reqs :
       Len(oncomplete'[r]) > Len(oncomplete[r]) => returned[r] = "0"]_vars

\* A getaddrinfo that dispatched no lookup, returned 0 and was completed later.
C12_Witness ==
  \E r \in Reqs :
    /\ IsOp(r, "getaddrinfo")
    /\ \A t \in DenoRecordTypes : dispatched[r][t] = 0
    /\ returned[r] = "0"
    /\ Completed(r)

\* C13: queryMx delivers one {priority: preference, exchange} per resolver
\* record, querySrv one {priority, weight, port, name: target}, in the
\* resolver's order; the other single-type queries deliver the resolver's
\* records unchanged; the code is that of the one lookup.
C13_SingleTypeShape ==
  \A r \in Reqs :
    (call[r].op \in SingleOps /\ Completed(r)) =>
      LET ret == lookups[r][OpType(call[r].op)].ret
          data == Delivered(r).data
      IN /\ Len(data) = Len(ret)
         /\ IsOp(r, "queryMx") =>
              \A i \in 1..Len(ret) :
                /\ DOMAIN data[i] = {"priority", "exchange"}
                /\ data[i].priority = ret[i].preference
                /\ data[i].exchange = ret[i].exchange
         /\ IsOp(r, "querySrv") =>
              \A i \in 1..Len(ret) :
                /\ DOMAIN data[i] = {"priority", "weight", "port", "name"}
                /\ data[i].priority = ret[i].priority
                /\ data[i].weight = ret[i].weight
                /\ data[i].port = ret[i].port
                /\ data[i].name = ret[i].target
         /\ call[r].op \notin {"queryMx", "querySrv"} => data = ret
         /\ Delivered(r).err =
              (IF "ok" \in seen[r] THEN 0
               ELSE IF "notfound" \in seen[r] THEN EAI_NODATA
               ELSE UNKNOWN)

\* A queryMx delivered with two different records.
C13_Witness ==
  \E r \in Reqs :
    /\ IsOp(r, "queryMx")
    /\ Completed(r)
    /\ Len(Delivered(r).data) = 2
    /\ Delivered(r).data[1] # Delivered(r).data[2]

\* C14: over the whole life of a getaddrinfo request the resolver is called
\* once for A when family is 0 or 4 and never otherwise, once for AAAA when
\* family is 0 or 6 and never otherwise, and for no other record type.
C14_OneLookupPerType ==
  \A r \in Reqs :
    IsOp(r, "getaddrinfo") =>
      \A t \in DenoRecordTypes :
        dispatched[r][t] =
          (IF (t = "A" /\ call[r].family \in {0, 4})
                \/ (t = "AAAA" /\ call[r].family \in {0, 6})
           THEN 1 ELSE 0)

\* A family-4 request completed after its one lookup failed.
C14_Witness ==
  \E r \in Reqs :
    /\ IsOp(r, "getaddrinfo")
    /\ call[r].family = 4
    /\ seen[r] = {"error"}
    /\ Completed(r)

\* C15: in getaddrinfo (verbatim, off the Windows/localhost case) and in
\* queryAny the delivered sequence holds, as a multiset, exactly the records
\* the lookups returned, and the code is 0 when at least one was returned.
C15_PartialSuccess ==
  \A r \in Reqs :
    /\ (IsOp(r, "getaddrinfo") /\ call[r].verbatim /\ ~Filtered(r)
          /\ Completed(r)) =>
         /\ Len(Delivered(r).data) = Returned(r)
         /\ \A a \in IPv4Lits \cup IPv6Lits :
              Count(Delivered(r).data, a) =
                Count(lookups[r]["A"].ret, a) + Count(lookups[r]["AAAA"].ret, a)
         /\ Returned(r) > 0 => Delivered(r).err = 0
    /\ (IsOp(r, "queryAny") /\ Completed(r)) =>
         /\ Len(Delivered(r).data) = Returned(r)
         /\ \A t \in RecordTypes : \A n \in NativeRecords(t) :
              Count(UntaggedSeq(OfType(Delivered(r).data, t)), n) =
                Count(lookups[r][t].ret, n)
         /\ Returned(r) > 0 => Delivered(r).err = 0

\* A family-0 verbatim request, one lookup failed and the other returned two
\* records.
C15_Witness ==
  \E r \in Reqs :
    /\ IsOp(r, "getaddrinfo")
    /\ call[r].family = 0
    /\ call[r].verbatim
    /\ ~Filtered(r)
    /\ Completed(r)
    /\ "ok" \in seen[r]
    /\ seen[r] # {"ok"}
    /\ Len(Delivered(r).data) = 2

\* C16: in single-type mode the delivered code is non-zero exactly when the
\* delivered record sequence is empty.
C16_SingleErrorIffEmpty ==
  \A r \in Reqs :
    (call[r].op \in SingleOps /\ Completed(r)) =>
      ((Delivered(r).err # 0) <=> (Delivered(r).data = <<>>))

\* C17: on Windows with hostname "localhost" getaddrinfo delivers only IPv4
\* literals, in the relative order they had before the filter; on any other
\* platform or for any other hostname no address is removed.
C17_PlatformFilter ==
  \A r \in Reqs :
    (IsOp(r, "getaddrinfo") /\ Completed(r)) =>
      LET data == Delivered(r).data
          ordered == OrderAddresses(call[r].verbatim, merged[r])
      IN IF isWindows /\ call[r].hostname = "localhost"
         THEN /\ \A i \in 1..Len(data) : isIPv4(data[i])
              /\ data = SelectSeq(ordered, isIPv4)
         ELSE /\ Len(data) = Len(merged[r])
              /\ \A a \in IPv4Lits \cup IPv6Lits :
                   Count(data, a) = Count(merged[r], a)

\* A Windows "localhost" request whose merged sequence held both kinds.
C17_Witness ==
  \E r \in Reqs :
    /\ IsOp(r, "getaddrinfo")
    /\ Filtered(r)
    /\ Completed(r)
    /\ Len(merged[r]) = 2
    /\ Len(Delivered(r).data) = 1

\* C19: getaddrinfo delivers only the codes 0 and EAI_NODATA: a failure that
\* is not not-found, with no record from another lookup, gives EAI_NODATA;
\* queryA and queryAaaa deliver UNKNOWN for that same failure.
C19_CoarseAddrCodes ==
  \A r \in Reqs :
    /\ (IsOp(r, "getaddrinfo") /\ Completed(r)) =>
         /\ Delivered(r).err \in {0, EAI_NODATA}
         /\ ("error" \in seen[r] /\ Returned(r) = 0) =>
              Delivered(r).err = EAI_NODATA
    /\ (call[r].op \in {"queryA", "queryAaaa"} /\ Completed(r)
          /\ seen[r] = {"error"}) =>
         Delivered(r).err = UNKNOWN

\* A getaddrinfo whose only lookup failed otherwise than not-found.
C19_Witness ==
  \E r \in Reqs :
    /\ IsOp(r, "getaddrinfo")
    /\ seen[r] = {"error"}
    /\ Completed(r)
    /\ Delivered(r).err = EAI_NODATA

OtherFamily(r) == IsOp(r, "getaddrinfo") /\ call[r].family \notin {0, 4, 6}

\* C20: getaddrinfo with a family other than 0, 4 and 6 calls the resolver for
\* no record type, returns 0, and then has req.oncomplete invoked exactly
\* once, with EAI_NODATA and an empty address list.
C20_OtherFamily ==
  /\ [](\A r \in Reqs :
          OtherFamily(r) =>
            /\ \A t \in DenoRecordTypes : dispatched[r][t] = 0
            /\ returned[r] = "0"
            /\ Len(oncomplete[r]) <= 1
            /\ Completed(r) =>
                 (Delivered(r).err = EAI_NODATA /\ Delivered(r).data = <<>>))
  /\ \A r \in SpecReqs : OtherFamily(r) ~> (Len(oncomplete[r]) = 1)

C20_Witness == \E r \in Reqs : OtherFamily(r) /\ Len(oncomplete[r]) = 1

\* C18: when two getaddrinfo or queryAny requests are in flight at once and
\* their lookups settle in any interleaved order, each request is delivered
\* only records its own lookups returned (no more of any record than they
\* returned), and its code is decided by its own lookups alone.
C18_Isolation ==
  \A r \in Reqs :
    /\ (IsOp(r, "getaddrinfo") /\ Completed(r)) =>
         /\ \A a \in IPv4Lits \cup IPv6Lits :
              Count(Delivered(r).data, a) <=
                Count(lookups[r]["A"].ret, a) + Count(lookups[r]["AAAA"].ret, a)
         /\ Delivered(r).err = (IF Returned(r) = 0 THEN EAI_NODATA ELSE 0)
    /\ (IsOp(r, "queryAny") /\ Completed(r)) =>
         /\ Len(Delivered(r).data) <= Returned(r)
         /\ \A t \in RecordTypes : \A n \in NativeRecords(t) :
              Count(UntaggedSeq(OfType(Delivered(r).data, t)), n) <=
                Count(lookups[r][t].ret, n)
         /\ Delivered(r).err = (IF Returned(r) = 0 THEN EAI_NODATA ELSE 0)

\* A queryAny and a getaddrinfo that overlapped, both delivered: two records
\* to the first, one address to the second, whose other lookup failed.
C18_Witness ==
  /\ IsOp(1, "queryAny")
  /\ Completed(1)
  /\ Len(Delivered(1).data) = 2
  /\ IsOp(2, "getaddrinfo")
  /\ call[2].family = 0
  /\ Completed(2)
  /\ "error" \in seen[2]
  /\ Len(Delivered(2).data) = 1

====
